---------------------------- MODULE Spec2Model ----------------------------
(***************************************************************************)
(* A model of QuickDash's manifest engine: the digest comparison           *)
(* (operations/compare.rs), the manifest codec and the directory scan      *)
(* (operations/mod.rs), the algorithm autodetection (algorithms.rs) and    *)
(* the check mode of the command line (main.rs).                           *)
(*                                                                         *)
(* Strings are sequences of one-character strings, so that lengths,        *)
(* prefixes and character classes are computed as the code computes them.  *)
(* A BTreeMap<PathBuf, String> is a function from paths to digests; its    *)
(* iteration order is the order of its keys (BTreeKeys).                   *)
(***************************************************************************)
EXTENDS Integers, Sequences, FiniteSets, TLC

(***************************************************************************)
(* Characters and strings                                                  *)
(***************************************************************************)

\* The byte value of the characters the model uses (ASCII).
CharCode(c) ==
    CASE c = "\t" -> 9
      [] c = " " -> 32
      [] c = "*" -> 42
      [] c = "-" -> 45
      [] c = "/" -> 47
      [] c = "0" -> 48
      [] c = "1" -> 49
      [] c = ";" -> 59
      [] c = "A" -> 65
      [] c = "B" -> 66
      [] c = "C" -> 67
      [] c = "D" -> 68
      [] c = "F" -> 70
      [] c = "G" -> 71
      [] c = "X" -> 88
      [] c = "\\" -> 92
      [] c = "a" -> 97
      [] c = "b" -> 98
      [] c = "c" -> 99
      [] c = "d" -> 100
      [] c = "f" -> 102
      [] c = "g" -> 103
      [] c = "x" -> 120
      [] OTHER -> 122

\* [[:xdigit:]] and char::is_ascii_hexdigit.
IsXDigit(c) == c \in {"0", "1", "A", "B", "C", "D", "F", "a", "b", "c", "d", "f"}

\* \s of the regex crate and char::is_whitespace.
IsSpace(c) == c \in {" ", "\t"}

\* The digest class of both line patterns: [[:xdigit:]-].
IsHashChar(c) == IsXDigit(c) \/ c = "-"

\* char::to_uppercase on the characters of the model.
UpperChar(c) ==
    CASE c = "a" -> "A"
      [] c = "b" -> "B"
      [] c = "c" -> "C"
      [] c = "d" -> "D"
      [] c = "f" -> "F"
      [] c = "g" -> "G"
      [] c = "x" -> "X"
      [] OTHER -> c

\* str::to_uppercase.
ToUpper(s) == [i \in 1..Len(s) |-> UpperChar(s[i])]

\* A string of n copies of the character c.
Repeat(c, n) == [i \in 1..n |-> c]

\* The strings over the alphabet chars of length lo..hi.
StringsOver(chars, lo, hi) == UNION {[1..n -> chars] : n \in lo..hi}

\* Byte-wise lexicographic order of two strings (str::cmp).
RECURSIVE StrLess(_, _)
StrLess(s, t) ==
    IF t = <<>> THEN FALSE
    ELSE IF s = <<>> THEN TRUE
    ELSE IF s[1] # t[1] THEN CharCode(s[1]) < CharCode(t[1])
    ELSE StrLess(Tail(s), Tail(t))

(***************************************************************************)
(* Paths and ordered maps                                                  *)
(***************************************************************************)

\* Path::components of a relative path: its parts between the separators.
RECURSIVE Components(_)
Components(p) ==
    IF \A i \in 1..Len(p) : p[i] # "/" THEN (IF p = <<>> THEN <<>> ELSE <<p>>)
    ELSE LET k == CHOOSE i \in 1..Len(p) : p[i] = "/" /\ \A j \in 1..(i - 1) : p[j] # "/"
         IN  (IF k = 1 THEN <<>> ELSE <<SubSeq(p, 1, k - 1)>>)
             \o Components(SubSeq(p, k + 1, Len(p)))

\* Lexicographic order of two component lists.
RECURSIVE ComponentsLess(_, _)
ComponentsLess(a, b) ==
    IF b = <<>> THEN FALSE
    ELSE IF a = <<>> THEN TRUE
    ELSE IF a[1] # b[1] THEN StrLess(a[1], b[1])
    ELSE ComponentsLess(Tail(a), Tail(b))

\* Ord for PathBuf: paths compare component by component.
PathLess(p, q) == ComponentsLess(Components(p), Components(q))

\* The keys of a BTreeMap in iteration order (ascending).
RECURSIVE SortedKeys(_)
SortedKeys(S) ==
    IF S = {} THEN <<>>
    ELSE LET m == CHOOSE x \in S : \A y \in S \ {x} : PathLess(x, y)
         IN  <<m>> \o SortedKeys(S \ {m})

BTreeKeys(m) == SortedKeys(DOMAIN m)

\* BTreeMap::new().
EmptyMap == [p \in {} |-> <<>>]

\* BTreeMap::insert: a later insert of the same key replaces the value.
MapInsert(m, k, v) == [p \in DOMAIN m \cup {k} |-> IF p = k THEN v ELSE m[p]]

\* The map without the keys of ks (BTreeMap::remove for each).
MapRemoveAll(m, ks) == [p \in DOMAIN m \ ks |-> m[p]]

\* The set of the elements of a sequence.
Range(s) == {s[i] : i \in 1..Len(s)}

(***************************************************************************)
(* algorithms.rs: the algorithms and the length of their digests           *)
(***************************************************************************)

Algorithm ==
    {"UNSPECIFIED", "SHA1", "SHA2224", "SHA2256", "SHA2384", "SHA2512", "SHA3224",
     "SHA3256", "SHA3384", "SHA3512", "XXH32", "XXH64", "XXH3", "CRC32", "MD5",
     "WhirlPool", "BLAKE2B", "BLAKE2S", "BLAKE3"}

\* Algorithm::hexlen.
hexlen(a) ==
    CASE a \in {"CRC32", "XXH32"} -> 8
      [] a \in {"XXH3", "XXH64"} -> 16
      [] a = "MD5" -> 32
      [] a \in {"SHA3256", "SHA2256", "BLAKE2S", "BLAKE3", "UNSPECIFIED"} -> 64
      [] a = "SHA1" -> 40
      [] a \in {"SHA2224", "SHA3224"} -> 56
      [] a \in {"SHA2384", "SHA3384"} -> 96
      [] a \in {"BLAKE2B", "SHA3512", "SHA2512", "WhirlPool"} -> 128

\* hash_file is opaque: the digest of a file depends on the algorithm and on the
\* file's content only, is written in upper-case hexadecimal and is hexlen(algo) long.
\* A content is named by a hexadecimal character.
hash_file(a, content) == <<content>> \o Repeat("0", hexlen(a) - 1)

(***************************************************************************)
(* operations/compare.rs                                                   *)
(***************************************************************************)

\* CompareResult::FileAdded / FileRemoved.
FileAdded(p) == [tag |-> "FileAdded", file |-> p]
FileRemoved(p) == [tag |-> "FileRemoved", file |-> p]

\* CompareFileResult::FileMatches / FileDiffers.
FileMatches(p) == [tag |-> "FileMatches", file |-> p, was_hash |-> <<>>, new_hash |-> <<>>]
FileDiffers(p, was, new) == [tag |-> "FileDiffers", file |-> p, was_hash |-> was, new_hash |-> new]

\* The three ways compare_hashes ends: Ok((.., ..)), Err(HashLengthDiffers{..}),
\* or a panic (an unwrap of None, a failed assertion, an index that is not there).
CompareOk(rr, fr) ==
    [kind |-> "ok", previous_len |-> 0, current_len |-> 0,
     remove_results |-> rr, file_compare_results |-> fr]
\* The two lengths in each other's place.
HashLengthDiffersSwapped(prev, cur) ==
    [kind |-> "err", previous_len |-> cur, current_len |-> prev,
     remove_results |-> <<>>, file_compare_results |-> <<>>]
HashLengthDiffers(prev, cur) ==
    [kind |-> "err", previous_len |-> prev, current_len |-> cur,
     remove_results |-> <<>>, file_compare_results |-> <<>>]
ComparePanic ==
    [kind |-> "panic", previous_len |-> 0, current_len |-> 0,
     remove_results |-> <<>>, file_compare_results |-> <<>>]
CompareNone ==
    [kind |-> "none", previous_len |-> 0, current_len |-> 0,
     remove_results |-> <<>>, file_compare_results |-> <<>>]

\* The closure compare_hashes hands to process_ignores: the key is missing on the
\* other side.
IgnorePredicate(key, other) == key \notin DOMAIN other

\* process_ignores_iter: the keys of curr, in order, that the predicate selects.
RECURSIVE SelectKeys(_, _)
SelectKeys(keys, other) ==
    IF keys = <<>> THEN <<>>
    ELSE (IF IgnorePredicate(keys[1], other) THEN <<keys[1]>> ELSE <<>>)
         \o SelectKeys(Tail(keys), other)

process_ignores_iter(curr, other) == SelectKeys(BTreeKeys(curr), other)

\* process_ignores without the results of its second pass.
process_ignores_one_pass(ch, lh) ==
    LET ck == process_ignores_iter(ch, lh)
        lk == process_ignores_iter(lh, ch)
        keys_to_remove == Range(ck) \cup Range(lk)
    IN  [results |-> [i \in 1..Len(ck) |-> FileAdded(ck[i])],
         ch |-> MapRemoveAll(ch, keys_to_remove),
         lh |-> MapRemoveAll(lh, keys_to_remove)]

\* process_ignores with its two passes in each other's place: loaded first.
process_ignores_loaded_first(ch, lh) ==
    LET ck == process_ignores_iter(ch, lh)
        lk == process_ignores_iter(lh, ch)
        keys_to_remove == Range(ck) \cup Range(lk)
    IN  [results |-> [i \in 1..Len(lk) |-> FileRemoved(lk[i])]
                     \o [i \in 1..Len(ck) |-> FileAdded(ck[i])],
         ch |-> MapRemoveAll(ch, keys_to_remove),
         lh |-> MapRemoveAll(lh, keys_to_remove)]

\* process_ignores: the results of the two passes (current first, tagged by cres,
\* then loaded, tagged by lres) and the two maps without the keys reported.
process_ignores(ch, lh) ==
    LET ck == process_ignores_iter(ch, lh)
        lk == process_ignores_iter(lh, ch)
        keys_to_remove == Range(ck) \cup Range(lk)
    IN  [results |-> [i \in 1..Len(ck) |-> FileAdded(ck[i])]
                     \o [i \in 1..Len(lk) |-> FileRemoved(lk[i])],
         ch |-> MapRemoveAll(ch, keys_to_remove),
         lh |-> MapRemoveAll(lh, keys_to_remove)]

\* The round of the loop with the two digests of FileDiffers in each other's place.
CompareFileSwapped(key, loaded_value, current_value) ==
    IF current_value = loaded_value
    THEN FileMatches(key)
    ELSE FileDiffers(key, current_value, loaded_value)

\* One round of the loop over loaded_hashes: FileMatches or FileDiffers.
CompareFile(key, loaded_value, current_value) ==
    IF current_value = loaded_value
    THEN FileMatches(key)
    ELSE FileDiffers(key, loaded_value, current_value)

\* compare_hashes.
compare_hashes(cur, ld) ==
    IF DOMAIN cur = {} \/ DOMAIN ld = {}
    THEN ComparePanic   \* iter().next().unwrap() on a map without entries
    ELSE LET current_hashes_value_len == Len(cur[BTreeKeys(cur)[1]])
             loaded_hashes_value_len == Len(ld[BTreeKeys(ld)[1]])
         IN  IF current_hashes_value_len # loaded_hashes_value_len
             THEN HashLengthDiffers(loaded_hashes_value_len, current_hashes_value_len)
             ELSE LET pr == process_ignores(cur, ld)
                      lkeys == BTreeKeys(pr.lh)
                  IN  IF Cardinality(DOMAIN pr.ch) # Cardinality(DOMAIN pr.lh)
                      THEN ComparePanic   \* assert_eq!
                      ELSE IF DOMAIN pr.ch = {}
                      THEN CompareOk(pr.results, <<>>)
                      ELSE IF \E i \in 1..Len(lkeys) : lkeys[i] \notin DOMAIN pr.ch
                      THEN ComparePanic   \* current_hashes[&key]
                      ELSE CompareOk(pr.results,
                                     [i \in 1..Len(lkeys) |->
                                        CompareFile(lkeys[i], pr.lh[lkeys[i]], pr.ch[lkeys[i]])])

(***************************************************************************)
(* operations/mod.rs: the manifest codec                                   *)
(***************************************************************************)

\* format!("{}  {}", hash, fname.to_string_lossy()): one line of the manifest. The
\* paths of the model hold no tab, so TabWriter passes the line on unchanged.
ManifestLine(hash, fname) == hash \o <<" ", " ">> \o fname

\* write_hashes: one line per entry, in the order of the keys.
write_hashes(m) ==
    LET keys == BTreeKeys(m)
    IN  [i \in 1..Len(keys) |-> ManifestLine(m[keys[i]], keys[i])]

\* str::trim_start and str::trim.
RECURSIVE TrimStart(_)
TrimStart(s) == IF s # <<>> /\ IsSpace(s[1]) THEN TrimStart(Tail(s)) ELSE s
RECURSIVE TrimEnd(_)
TrimEnd(s) ==
    IF s # <<>> /\ IsSpace(s[Len(s)]) THEN TrimEnd(SubSeq(s, 1, Len(s) - 1)) ELSE s
Trim(s) == TrimEnd(TrimStart(s))

\* str::replace(from, to) for a single character; to is a string.
RECURSIVE ReplaceChar(_, _, _)
ReplaceChar(s, from, to) ==
    IF s = <<>> THEN <<>>
    ELSE (IF s[1] = from THEN to ELSE <<s[1]>>) \o ReplaceChar(Tail(s), from, to)

\* str::contains for a single character.
Contains(s, c) == \E i \in 1..Len(s) : s[i] = c

\* The components of a path joined by the separator.
RECURSIVE JoinComponents(_)
JoinComponents(cs) ==
    IF cs = <<>> THEN <<>>
    ELSE IF Len(cs) = 1 THEN cs[1]
    ELSE cs[1] \o <<"/">> \o JoinComponents(Tail(cs))

\* Path::new(s).to_owned(): two PathBufs are equal when their components are, so a
\* path is kept as its components joined by single separators (with the root, if any).
PathNew(s) ==
    (IF s # <<>> /\ s[1] = "/" THEN <<"/">> ELSE <<>>) \o JoinComponents(Components(s))

\* filepath_parser without the test for a forward slash.
filepath_parser_any_backslash(raw) ==
    LET s == ReplaceChar(Trim(raw), "*", <<>>)
    IN  IF Contains(s, "\\")
        THEN PathNew(ReplaceChar(s, "\\", <<"/">>))
        ELSE PathNew(s)

\* filepath_parser (on a target that is not Windows).
filepath_parser(raw) ==
    LET s == ReplaceChar(Trim(raw), "*", <<>>)
    IN  IF Contains(s, "\\") /\ ~Contains(s, "/")
        THEN PathNew(ReplaceChar(s, "\\", <<"/">>))
        ELSE PathNew(s)

\* LINE_RGX1, (?i)^([[:xdigit:]-]+)\s+(.+?)$: the ways to split a line into the
\* digest line[1..i], the blanks line[i+1..j] and the path line[j+1..], each non-empty.
Rgx1Splits(line) ==
    {ij \in (1..Len(line)) \X (1..Len(line)) :
        /\ ij[1] < ij[2] /\ ij[2] < Len(line)
        /\ \A k \in 1..ij[1] : IsHashChar(line[k])
        /\ \A k \in (ij[1] + 1)..ij[2] : IsSpace(line[k])}

\* LINE_RGX1.captures(line): the digest and the blanks are greedy, the path takes
\* the rest.
LINE_RGX1(line) ==
    LET S == Rgx1Splits(line)
    IN  IF S = {} THEN [matched |-> FALSE, hash |-> <<>>, file |-> <<>>]
        ELSE LET i == CHOOSE i \in {ij[1] : ij \in S} : \A ij \in S : ij[1] <= i
                 j == CHOOSE j \in {ij[2] : ij \in {x \in S : x[1] = i}} :
                          \A ij \in {x \in S : x[1] = i} : ij[2] <= j
             IN  [matched |-> TRUE, hash |-> SubSeq(line, 1, i),
                  file |-> SubSeq(line, j + 1, Len(line))]

\* LINE_RGX2, (?i)^(.+?)\t{0,}\s{1,}([[:xdigit:]-]+)$: the ways to split a line into
\* the path line[1..i], the tabs and blanks line[i+1..j] and the digest line[j+1..].
Rgx2Splits(line) ==
    {ij \in (1..Len(line)) \X (1..Len(line)) :
        /\ ij[1] < ij[2] /\ ij[2] < Len(line)
        /\ \A k \in (ij[1] + 1)..ij[2] : IsSpace(line[k])
        /\ \A k \in (ij[2] + 1)..Len(line) : IsHashChar(line[k])}

\* LINE_RGX2.captures(line): the path is lazy (the shortest that lets the rest
\* match), the tabs and blanks are greedy.
LINE_RGX2(line) ==
    LET S == Rgx2Splits(line)
    IN  IF S = {} THEN [matched |-> FALSE, hash |-> <<>>, file |-> <<>>]
        ELSE LET i == CHOOSE i \in {ij[1] : ij \in S} : \A ij \in S : i <= ij[1]
                 j == CHOOSE j \in {ij[2] : ij \in {x \in S : x[1] = i}} :
                          \A ij \in {x \in S : x[1] = i} : ij[2] <= j
             IN  [matched |-> TRUE, hash |-> SubSeq(line, j + 1, Len(line)),
                  file |-> SubSeq(line, 1, i)]

\* The result of try_contains: Ok with the map after the insert and the pattern that
\* matched, or Err(HashesFileParsingFailure(line)).
ParseOk(m, g) == [ok |-> TRUE, hashes |-> m, grammar |-> g, error |-> <<>>]
ParseErr(line) == [ok |-> FALSE, hashes |-> EmptyMap, grammar |-> "none", error |-> line]

\* try_contains with the two patterns tried in the other order.
try_contains_path_first(line, m) ==
    LET c1 == LINE_RGX1(line)
        c2 == LINE_RGX2(line)
    IN  IF c2.matched
        THEN ParseOk(MapInsert(m, filepath_parser(c2.file), ToUpper(c2.hash)), "B")
        ELSE IF c1.matched
        THEN ParseOk(MapInsert(m, filepath_parser(c1.file), ToUpper(c1.hash)), "A")
        ELSE ParseErr(line)

\* try_contains.
try_contains(line, m) ==
    LET c1 == LINE_RGX1(line)
        c2 == LINE_RGX2(line)
    IN  IF c1.matched
        THEN ParseOk(MapInsert(m, filepath_parser(c1.file), ToUpper(c1.hash)), "A")
        ELSE IF c2.matched
        THEN ParseOk(MapInsert(m, filepath_parser(c2.file), ToUpper(c2.hash)), "B")
        ELSE ParseErr(line)

\* The test of read_hashes for a comment line.
IsCommentLine(line) == TrimStart(line) # <<>> /\ TrimStart(line)[1] = ";"

\* The tests of read_hashes without the one for a comment.
SkipLineEmptyOnly(line) == line = <<>>

\* The two tests of read_hashes that skip a line.
SkipLine(line) == line = <<>> \/ IsCommentLine(line)

\* The loop of read_hashes over the lines from the i-th on; the first line that
\* try_contains rejects ends it with the error.
RECURSIVE ReadLines(_, _, _)
ReadLines(lines, i, m) ==
    IF i > Len(lines) THEN ParseOk(m, "none")
    ELSE IF SkipLine(lines[i]) THEN ReadLines(lines, i + 1, m)
    ELSE LET r == try_contains(lines[i], m)
         IN  IF r.ok THEN ReadLines(lines, i + 1, r.hashes) ELSE r

\* read_hashes.
read_hashes(lines) == ReadLines(lines, 1, EmptyMap)

(***************************************************************************)
(* algorithms.rs: Algorithm::autodetect_from_hash                          *)
(***************************************************************************)

\* str::starts_with.
StartsWith(s, prefix) ==
    Len(s) >= Len(prefix) /\ SubSeq(s, 1, Len(prefix)) = prefix

\* s.split_whitespace().collect::<String>(): the string without its blanks.
RECURSIVE RemoveWhitespace(_)
RemoveWhitespace(s) ==
    IF s = <<>> THEN <<>>
    ELSE (IF IsSpace(s[1]) THEN <<>> ELSE <<s[1]>>) \o RemoveWhitespace(Tail(s))

\* The normalisation at the head of autodetect_from_hash.
NormalizeHash(hash) ==
    LET t == Trim(hash)
        u == IF StartsWith(t, <<"0", "x">>) \/ StartsWith(t, <<"0", "X">>)
             THEN SubSeq(t, 3, Len(t))
             ELSE t
    IN  RemoveWhitespace(u)

\* The match on the length of a string of dashes, with the guesses of the match on
\* the length of a string of hexadecimal digits for the other lengths.
DashLenToAlgorithmGuessing(len) ==
    CASE len = 8 -> "CRC32"
      [] len = 16 -> "XXH64"
      [] len = 32 -> "MD5"
      [] len = 40 -> "SHA1"
      [] len = 56 -> "SHA2224"
      [] len = 64 -> "BLAKE3"
      [] len = 96 -> "SHA2384"
      [] len = 128 -> "BLAKE2B"
      [] OTHER -> IF len < 12 THEN "CRC32"
                  ELSE IF len < 36 THEN "MD5"
                  ELSE IF len < 52 THEN "BLAKE3"
                  ELSE IF len < 110 THEN "SHA2384"
                  ELSE "BLAKE2B"

\* The match on the length of a string of dashes.
DashLenToAlgorithm(len) ==
    CASE len = 8 -> "CRC32"
      [] len = 16 -> "XXH64"
      [] len = 32 -> "MD5"
      [] len = 40 -> "SHA1"
      [] len = 56 -> "SHA2224"
      [] len = 64 -> "BLAKE3"
      [] len = 96 -> "SHA2384"
      [] len = 128 -> "BLAKE2B"
      [] OTHER -> "BLAKE3"

\* The match on the length of a string of hexadecimal digits.
HexLenToAlgorithm(len) ==
    CASE len = 8 -> "CRC32"
      [] len = 16 -> "XXH64"
      [] len = 32 -> "MD5"
      [] len = 40 -> "SHA1"
      [] len = 56 -> "SHA2224"
      [] len = 64 -> "BLAKE3"
      [] len = 96 -> "SHA2384"
      [] len = 128 -> "BLAKE2B"
      [] OTHER -> IF len < 12 THEN "CRC32"
                  ELSE IF len < 36 THEN "MD5"
                  ELSE IF len < 52 THEN "BLAKE3"
                  ELSE IF len < 110 THEN "SHA2384"
                  ELSE "BLAKE2B"

IsDash(c) == c = "-"

\* s.chars().all(|c| c == '-') and s.chars().all(|c| c.is_ascii_hexdigit()).
AllDashes(s) == \A i \in 1..Len(s) : IsDash(s[i])
AllHexDigits(s) == \A i \in 1..Len(s) : IsXDigit(s[i])

\* Algorithm::autodetect_from_hash.
autodetect_from_hash(hash) ==
    LET s == NormalizeHash(hash)
    IN  IF s # <<>> /\ AllDashes(s) THEN DashLenToAlgorithm(Len(s))
        ELSE IF s # <<>> /\ AllHexDigits(s) THEN HexLenToAlgorithm(Len(s))
        ELSE "BLAKE3"

(***************************************************************************)
(* operations/mod.rs: create_hashes and create_hashes_for_files            *)
(*                                                                         *)
(* A tree below the scan root is a record fs: its nodes are 1..fs.n, each  *)
(* a regular file or a directory, fs.parent[i] its directory (0: the       *)
(* root), fs.ino[i] its inode and fs.content[i] what a file holds. The     *)
(* name of node i is the i-th letter of NodeNames, so no two nodes share a *)
(* path. The model has no symbolic links and no unreadable entries.        *)
(***************************************************************************)

NodeNames == <<"a", "b", "c", "d", "f", "g">>

\* utilities::relative_name(path, e.path()): the path of an entry below the root.
RECURSIVE relative_name(_, _)
relative_name(fs, i) ==
    IF fs.parent[i] = 0 THEN <<NodeNames[i]>>
    ELSE relative_name(fs, fs.parent[i]) \o <<"/", NodeNames[i]>>

\* DirEntry::depth: the root is at depth 0, its entries at depth 1.
RECURSIVE EntryDepth(_, _)
EntryDepth(fs, i) == IF fs.parent[i] = 0 THEN 1 ELSE 1 + EntryDepth(fs, fs.parent[i])

\* e.file_type().is_file().
is_file(fs, i) == fs.kind[i] = "file"

\* An Option<usize>: None is the empty tuple, Some(d) the tuple of d.
None == <<>>
Some(d) == <<d>>

\* The option walkdir is given: max_depth(depth + 1), or no limit.
WalkMaxDepth(depth) == IF depth = None THEN None ELSE Some(depth[1] + 1)

\* The walk yields no entry deeper than max_depth.
WithinMaxDepth(d, max_depth) == max_depth = None \/ d <= max_depth[1]

\* The closure of filter_entry turning down ignored files only.
filter_entry_files_only(fs, i, ignored_files) ==
    LET filename == relative_name(fs, i)
        ignored == \E f \in ignored_files : f = filename
    IN  IF ignored /\ is_file(fs, i) THEN FALSE ELSE TRUE

\* The closure of filter_entry: an entry whose relative name is an ignored one is
\* turned down, a file and a directory alike; any other is let through.
filter_entry(fs, i, ignored_files) ==
    LET filename == relative_name(fs, i)
        ignored == \E f \in ignored_files : f = filename
    IN  IF ignored /\ is_file(fs, i) THEN FALSE
        ELSE IF ignored /\ ~is_file(fs, i) THEN FALSE
        ELSE TRUE

\* The entries of directory d (0: the root) in the order the directory lists them.
RECURSIVE EntriesFrom(_, _, _)
EntriesFrom(fs, d, i) ==
    IF i > fs.n THEN <<>>
    ELSE (IF fs.parent[i] = d THEN <<i>> ELSE <<>>) \o EntriesFrom(fs, d, i + 1)

ReadDir(fs, d) == EntriesFrom(fs, d, 1)

\* WalkDir::into_iter().filter_entry(..): the entries the walk yields, depth first.
\* An entry below max_depth is not yielded; an entry the closure turns down is
\* skipped and, when it is a directory, not descended into.
RECURSIVE WalkEntry(_, _, _, _)
RECURSIVE WalkEntries(_, _, _, _)
WalkEntry(fs, i, max_depth, ignored_files) ==
    IF ~WithinMaxDepth(EntryDepth(fs, i), max_depth) THEN <<>>
    ELSE IF ~filter_entry(fs, i, ignored_files) THEN <<>>
    ELSE <<i>> \o (IF is_file(fs, i) THEN <<>>
                   ELSE WalkEntries(fs, ReadDir(fs, i), max_depth, ignored_files))
WalkEntries(fs, es, max_depth, ignored_files) ==
    IF es = <<>> THEN <<>>
    ELSE WalkEntry(fs, es[1], max_depth, ignored_files)
         \o WalkEntries(fs, Tail(es), max_depth, ignored_files)

\* The files create_hashes collects: the walk from the root, then the filter on
\* is_file.
ScanFiles(fs, depth, ignored_files) ==
    LET IsFile(i) == is_file(fs, i)
    IN  SelectSeq(WalkEntries(fs, ReadDir(fs, 0), WalkMaxDepth(depth), ignored_files),
                  IsFile)

\* slice::sort_by, a stable sort: insertion of x after the entries that are not
\* greater.
RECURSIVE InsertByIno(_, _, _)
InsertByIno(fs, sorted, x) ==
    IF sorted = <<>> THEN <<x>>
    ELSE IF fs.ino[x] < fs.ino[sorted[1]] THEN <<x>> \o sorted
    ELSE <<sorted[1]>> \o InsertByIno(fs, Tail(sorted), x)

RECURSIVE SortByIno(_, _)
SortByIno(fs, s) ==
    IF s = <<>> THEN <<>>
    ELSE InsertByIno(fs, SortByIno(fs, SubSeq(s, 1, Len(s) - 1)), s[Len(s)])

\* optimize_file_order that loses the entry listed first.
optimize_file_order_dropping(fs, dirs) ==
    IF dirs = <<>> THEN <<>> ELSE SortByIno(fs, Tail(dirs))

\* optimize_file_order (Linux): the entries sorted by inode.
optimize_file_order(fs, dirs) == SortByIno(fs, dirs)

\* path.join(f).is_file(): the regular file of the tree, if any, that the relative
\* path f names.
FileAt(fs, f) == {i \in 1..fs.n : relative_name(fs, i) = f /\ is_file(fs, i)}

\* create_hashes_for_files: the paths that name a regular file, each with the digest
\* of that file.
create_hashes_for_files(fs, paths, algo) ==
    [f \in {g \in paths : FileAt(fs, g) # {}} |->
        hash_file(algo, fs.content[CHOOSE i \in FileAt(fs, f) : TRUE])]

(***************************************************************************)
(* main.rs: the choice of the algorithm in check mode                      *)
(***************************************************************************)

\* loaded_hashes.values().filter(|s| !s.starts_with("----")): the digests, in the
\* order of their keys, that are taken for more than a placeholder.
ExampleHashes(loaded) ==
    LET keys == BTreeKeys(loaded)
        values == [i \in 1..Len(keys) |-> loaded[keys[i]]]
        Usable(v) == ~StartsWith(v, <<"-", "-", "-", "-">>)
    IN  SelectSeq(values, Usable)

(***************************************************************************)
(* The state                                                               *)
(***************************************************************************)

VARIABLES
    pc,               \* the step the run is at
    current_hashes,   \* compare_hashes: the mapping of the fresh scan
    loaded_hashes,    \* compare_hashes: the mapping read from the manifest
    compare_result,   \* what compare_hashes ended with
    hashes,           \* the mapping create_hashes builds and write_hashes writes
    out_file,         \* the lines of the manifest file
    read_result,      \* what read_hashes ended with
    line_in,          \* the digest, separator and path a line is made of
    line,             \* the line handed to try_contains
    parsed,           \* what try_contains ended with
    hash,             \* the string handed to autodetect_from_hash
    algo,             \* the algorithm in use
    opts,             \* the options of the command line
    disk,             \* the tree below the scan root
    files             \* create_hashes: the entries still to hash

vars ==
    <<pc, current_hashes, loaded_hashes, compare_result, hashes, out_file, read_result,
      line_in, line, parsed, hash, algo, opts, disk, files>>

compareVars == <<current_hashes, loaded_hashes, compare_result>>
codecVars == <<hashes, out_file, read_result>>
parseVars == <<line_in, line, parsed>>
detectVars == <<hash, algo>>
scanVars == <<opts, disk, files>>

NoRead == [ok |-> FALSE, hashes |-> EmptyMap, grammar |-> "pending", error |-> <<>>]
NoOpts == [algorithm |-> "UNSPECIFIED", depth |-> None, ignored_files |-> {}]
NoDisk == [n |-> 0, kind |-> <<>>, parent |-> <<>>, ino |-> <<>>, content |-> <<>>]
NoLine == [hash |-> <<>>, sep |-> <<>>, file |-> <<>>, form |-> "none"]

IdleCompare ==
    current_hashes = EmptyMap /\ loaded_hashes = EmptyMap /\ compare_result = CompareNone
IdleCodec == hashes = EmptyMap /\ out_file = <<>> /\ read_result = NoRead
IdleParse == line_in = NoLine /\ line = <<>> /\ parsed = NoRead
IdleDetect == hash = <<>> /\ algo = "UNSPECIFIED"
IdleScan == opts = NoOpts /\ disk = NoDisk /\ files = <<>>

\* The mappings from some of the paths P to the digests D.
Mappings(P, D) == UNION {[S -> D] : S \in SUBSET P}

\* The same with at most n entries.
RECURSIVE MappingsUpTo(_, _, _)
MappingsUpTo(P, D, n) ==
    IF n = 0 THEN {EmptyMap}
    ELSE LET M == MappingsUpTo(P, D, n - 1)
         IN  M \cup {MapInsert(m, p, d) : m \in M, p \in P, d \in D}

(***************************************************************************)
(* compare_hashes on any two mappings                                      *)
(***************************************************************************)

\* The number of paths the mappings to compare are drawn from.
MaxPaths == 4

PathPool == << <<"a">>, <<"a", "/", "b">>, <<"a", "-">>, <<"b">>, <<"c">> >>

ComparePaths ==
    {PathPool[i] : i \in 1..(IF MaxPaths < Len(PathPool) THEN MaxPaths ELSE Len(PathPool))}

\* Digests of two algorithms whose digests differ in length, and of two contents.
CompareDigests ==
    {hash_file("CRC32", "A"), hash_file("CRC32", "B"), hash_file("XXH64", "A")}

InitCompare ==
    /\ pc = "compare"
    /\ current_hashes \in Mappings(ComparePaths, CompareDigests)
    /\ loaded_hashes \in Mappings(ComparePaths, CompareDigests)
    /\ compare_result = CompareNone
    /\ IdleCodec /\ IdleParse /\ IdleDetect /\ IdleScan

CompareHashes ==
    /\ pc = "compare"
    /\ compare_result' = compare_hashes(current_hashes, loaded_hashes)
    /\ pc' = "done"
    /\ UNCHANGED <<current_hashes, loaded_hashes, codecVars, parseVars, detectVars, scanVars>>

NextCompare == CompareHashes

SpecCompare == InitCompare /\ [][NextCompare]_vars

(***************************************************************************)
(* write_hashes, then read_hashes of what it wrote                         *)
(***************************************************************************)

\* The number of entries of a mapping to write.
MaxEntries == 2

\* Paths in and out of the normal form of filepath_parser.
CodecPaths ==
    { <<"x">>, <<"x", " ", "x">>, <<"x", "/", "x">>, <<"\\", "/", "x">>, <<"a">>,
      <<" ", "x">>, <<"x", " ">>, <<"x", "*">>, <<"*", "x">>, <<"x", "\\", "x">> }

\* An upper-case hexadecimal digest and a placeholder.
CodecDigests == {hash_file("CRC32", "A"), Repeat("-", hexlen("CRC32"))}

InitRoundTrip ==
    /\ pc = "write"
    /\ hashes \in MappingsUpTo(CodecPaths, CodecDigests, MaxEntries)
    /\ out_file = <<>>
    /\ read_result = NoRead
    /\ IdleCompare /\ IdleParse /\ IdleDetect /\ IdleScan

WriteHashes ==
    /\ pc = "write"
    /\ out_file' = write_hashes(hashes)
    /\ pc' = "read"
    /\ UNCHANGED <<hashes, read_result, compareVars, parseVars, detectVars, scanVars>>

ReadHashes ==
    /\ pc = "read"
    /\ read_result' = read_hashes(out_file)
    /\ pc' = "done"
    /\ UNCHANGED <<hashes, out_file, compareVars, parseVars, detectVars, scanVars>>

NextRoundTrip == WriteHashes \/ ReadHashes

SpecRoundTrip == InitRoundTrip /\ [][NextRoundTrip]_vars

(***************************************************************************)
(* read_hashes of any manifest                                             *)
(***************************************************************************)

\* The number of lines of a manifest.
MaxLines == 3

\* Lines of every kind: empty, blank, comments, the two layouts, and lines that
\* match neither pattern.
ManifestLines ==
    { <<>>,
      <<" ">>,
      <<" ", "\t">>,
      <<";", "x">>,
      <<" ", ";", "x", " ", "A">>,
      <<"A", "1", " ", " ", "x">>,
      <<"b", "\t", "x">>,
      <<"x", "\t", "B">>,
      <<"-", " ", "g">>,
      <<"x">>,
      <<"A", "1">>,
      <<"A", " ">>,
      <<"x", " ", "g">> }

InitRead ==
    /\ pc = "read"
    /\ out_file \in StringsOver(ManifestLines, 0, MaxLines)
    /\ hashes = EmptyMap
    /\ read_result = NoRead
    /\ IdleCompare /\ IdleParse /\ IdleDetect /\ IdleScan

NextRead == ReadHashes

SpecRead == InitRead /\ [][NextRead]_vars

(***************************************************************************)
(* try_contains on a line of either layout                                 *)
(***************************************************************************)

\* The lengths of the digest, of the separator and of the path of a line.
MaxHashLen == 2
MaxSepLen == 2
MaxPathLen == 3

LineHashes == StringsOver({"a", "B", "-"}, 1, MaxHashLen)
LineSeps == StringsOver({" ", "\t"}, 1, MaxSepLen)

\* The paths filepath_parser leaves as they are.
LinePaths == {p \in StringsOver({"a", "x", " ", "/"}, 1, MaxPathLen) : filepath_parser(p) = p}

\* The digest-first and the path-first line of a digest, a separator and a path.
MakeLine(in) ==
    IF in.form = "digest-first" THEN in.hash \o in.sep \o in.file
    ELSE in.file \o in.sep \o in.hash

InitParse ==
    /\ pc = "parse"
    /\ line_in \in [hash : LineHashes, sep : LineSeps, file : LinePaths,
                    form : {"digest-first", "path-first"}]
    /\ line = MakeLine(line_in)
    /\ parsed = NoRead
    /\ IdleCompare /\ IdleCodec /\ IdleDetect /\ IdleScan

TryContains ==
    /\ pc = "parse"
    /\ parsed' = try_contains(line, EmptyMap)
    /\ pc' = "done"
    /\ UNCHANGED <<line_in, line, compareVars, codecVars, detectVars, scanVars>>

NextParse == TryContains

SpecParse == InitParse /\ [][NextParse]_vars

(***************************************************************************)
(* autodetect_from_hash on a string                                        *)
(***************************************************************************)

\* The length of the run of equal characters in the string to detect from; beyond
\* the longest digest (128) and the last bucket (110).
MaxRunLen == 130

DetectPrefixes == {<<>>, <<" ">>, <<"0", "x">>, <<"\t", "0", "X">>, <<"0">>}
DetectSuffixes == {<<>>, <<"\t">>, <<" ", "1">>, <<"-">>, <<"g">>}

\* A prefix, a run of a dash, of a hexadecimal digit or of another character, and a
\* suffix.
DetectInputs ==
    {pre \o Repeat(c, n) \o suf :
        pre \in DetectPrefixes, c \in {"-", "A", "f", "x"}, n \in 0..MaxRunLen,
        suf \in DetectSuffixes}

InitDetect ==
    /\ pc = "detect"
    /\ hash \in DetectInputs
    /\ algo = "UNSPECIFIED"
    /\ IdleCompare /\ IdleCodec /\ IdleParse /\ IdleScan

AutodetectFromHash ==
    /\ pc = "detect"
    /\ algo' = autodetect_from_hash(hash)
    /\ pc' = "done"
    /\ UNCHANGED <<hash, compareVars, codecVars, parseVars, scanVars>>

NextDetect == AutodetectFromHash

SpecDetect == InitDetect /\ [][NextDetect]_vars

(***************************************************************************)
(* The trees below a scan root                                             *)
(***************************************************************************)

\* The inodes of n entries: in the order of the directory listing, or against it.
InoOrders(n) == {[i \in 1..n |-> i], [i \in 1..n |-> n + 1 - i]}

\* The trees of n entries whose files hold one of the given contents: an entry
\* lies in the root or in a directory listed before it.
Trees(n, contents) ==
    {fs \in [n : {n}, kind : [1..n -> {"file", "dir"}], parent : [1..n -> 0..n],
             ino : InoOrders(n), content : [1..n -> contents]] :
        \A i \in 1..n :
            /\ fs.parent[i] < i
            /\ fs.parent[i] # 0 => fs.kind[fs.parent[i]] = "dir"}

(***************************************************************************)
(* main.rs: check mode                                                     *)
(***************************************************************************)

\* The number of files a manifest to check names, and of entries of the root.
MaxCheckFiles == 2

CheckPaths == {<<NodeNames[i]>> : i \in 1..MaxCheckFiles}

\* The digests of a manifest: of two contents, and the placeholder.
CheckDigests ==
    {hash_file("CRC32", "A"), hash_file("CRC32", "B"), Repeat("-", hexlen("CRC32"))}

\* The root holds files and directories, none below another.
CheckDisks ==
    UNION {{fs \in Trees(n, {"A", "B"}) : \A i \in 1..n : fs.parent[i] = 0 /\ fs.ino[i] = i} :
             n \in 0..MaxCheckFiles}

InitCheck ==
    /\ pc = "check_read"
    /\ opts \in [algorithm : {"UNSPECIFIED", "CRC32", "XXH64"}, depth : {None},
                 ignored_files : {{}}]
    /\ disk \in CheckDisks
    /\ \E m \in Mappings(CheckPaths, CheckDigests) : out_file = write_hashes(m)
    /\ files = <<>>
    /\ hashes = EmptyMap
    /\ read_result = NoRead
    /\ IdleCompare /\ IdleParse /\ IdleDetect

\* match read_hashes(&file): Ok(loaded_hashes) goes on, Err(rval) is the exit value.
CheckReadHashes ==
    /\ pc = "check_read"
    /\ read_result' = read_hashes(out_file)
    /\ IF read_result'.ok
       THEN loaded_hashes' = read_result'.hashes /\ pc' = "check_algo"
       ELSE loaded_hashes' = loaded_hashes /\ pc' = "exit"
    /\ UNCHANGED <<current_hashes, compare_result, hashes, out_file, parseVars,
                   detectVars, scanVars>>

\* The algorithm of the options, or the one detected from the first digest of the
\* manifest that is no placeholder; .next().unwrap() panics when there is none.
CheckAlgorithm ==
    /\ pc = "check_algo"
    /\ IF opts.algorithm = "UNSPECIFIED"
       THEN IF ExampleHashes(loaded_hashes) = <<>>
            THEN pc' = "panic" /\ UNCHANGED <<hash, algo>>
            ELSE /\ hash' = ExampleHashes(loaded_hashes)[1]
                 /\ algo' = autodetect_from_hash(hash')
                 /\ pc' = "check_hash"
       ELSE algo' = opts.algorithm /\ pc' = "check_hash" /\ UNCHANGED hash
    /\ UNCHANGED <<compareVars, codecVars, parseVars, scanVars>>

\* create_hashes_for_files on the paths of the manifest.
CheckCreateHashes ==
    /\ pc = "check_hash"
    /\ current_hashes' = create_hashes_for_files(disk, DOMAIN loaded_hashes, algo)
    /\ pc' = "check_compare"
    /\ UNCHANGED <<loaded_hashes, compare_result, codecVars, parseVars, detectVars, scanVars>>

\* compare_hashes(hashes, loaded_hashes), whose result is written out.
CheckCompare ==
    /\ pc = "check_compare"
    /\ compare_result' = compare_hashes(current_hashes, loaded_hashes)
    /\ pc' = IF compare_result'.kind = "panic" THEN "panic" ELSE "exit"
    /\ UNCHANGED <<current_hashes, loaded_hashes, codecVars, parseVars, detectVars, scanVars>>

NextCheck == CheckReadHashes \/ CheckAlgorithm \/ CheckCreateHashes \/ CheckCompare

SpecCheck == InitCheck /\ [][NextCheck]_vars

(***************************************************************************)
(* create_hashes on a tree                                                 *)
(***************************************************************************)

\* The number of entries of the tree, of ignored paths, and the greatest depth
\* option.
MaxNodes == 3
MaxIgnored == 1
MaxDepth == 1

\* The trees to scan; the content of a file is set by its place.
ScanDisks ==
    UNION {{fs \in Trees(n, {"A", "B"}) :
              \A i \in 1..n : fs.content[i] = (IF i % 2 = 1 THEN "A" ELSE "B")} :
             n \in 1..MaxNodes}

\* The sets of at most n elements of S.
RECURSIVE SubsetsUpTo(_, _)
SubsetsUpTo(S, n) ==
    IF n = 0 THEN {{}}
    ELSE LET T == SubsetsUpTo(S, n - 1) IN T \cup {t \cup {x} : t \in T, x \in S}

\* The ignored paths: of entries of the tree, and one that names nothing.
IgnoreLists(fs) ==
    SubsetsUpTo({relative_name(fs, i) : i \in 1..fs.n} \cup {<<"x">>}, MaxIgnored)

InitScan ==
    /\ pc = "walk"
    /\ disk \in ScanDisks
    /\ opts \in [algorithm : {"CRC32"}, depth : {None} \cup {Some(d) : d \in 0..MaxDepth},
                 ignored_files : IgnoreLists(disk)]
    /\ files = <<>>
    /\ hashes = EmptyMap
    /\ out_file = <<>>
    /\ read_result = NoRead
    /\ IdleCompare /\ IdleParse /\ IdleDetect

\* The walk of the tree into the list of files.
CreateHashesWalk ==
    /\ pc = "walk"
    /\ files' = ScanFiles(disk, opts.depth, opts.ignored_files)
    /\ pc' = "order"
    /\ UNCHANGED <<opts, disk, compareVars, codecVars, parseVars, detectVars>>

\* optimize_file_order(&mut files).
CreateHashesOrder ==
    /\ pc = "order"
    /\ files' = optimize_file_order(disk, files)
    /\ pc' = "hash"
    /\ UNCHANGED <<opts, disk, compareVars, codecVars, parseVars, detectVars>>

\* One round of files.into_iter().map(..).collect(): the next file is hashed and
\* the pair (relative name, digest) goes into the map.
CreateHashesHash ==
    /\ pc = "hash"
    /\ files # <<>>
    /\ hashes' = MapInsert(hashes, relative_name(disk, files[1]),
                           hash_file(opts.algorithm, disk.content[files[1]]))
    /\ files' = Tail(files)
    /\ UNCHANGED <<pc, opts, disk, out_file, read_result, compareVars, parseVars, detectVars>>

\* The iterator is at its end: create_hashes returns the map.
CreateHashesReturn ==
    /\ pc = "hash"
    /\ files = <<>>
    /\ pc' = "done"
    /\ UNCHANGED <<opts, disk, files, compareVars, codecVars, parseVars, detectVars>>

NextScan == CreateHashesWalk \/ CreateHashesOrder \/ CreateHashesHash \/ CreateHashesReturn

SpecScan == InitScan /\ [][NextScan]_vars

(***************************************************************************)
(* create_hashes over every order of the inodes                            *)
(***************************************************************************)

\* The number of entries of the trees whose files are hashed in every order.
MaxOrderNodes == 3

\* The ways to number n entries: their inodes, no two alike.
InoPermutations(n) ==
    {q \in [1..n -> 1..n] : \A i \in 1..n : \A j \in 1..n : i # j => q[i] # q[j]}

\* The trees of ScanDisks' kind with their inodes in every order, so that the sort
\* of optimize_file_order puts the files in every order.
OrderDisks ==
    UNION {{[fs EXCEPT !.ino = q] :
              fs \in {t \in Trees(n, {"A", "B"}) :
                        \A i \in 1..n : /\ t.ino[i] = i
                                        /\ t.content[i] = (IF i % 2 = 1 THEN "A" ELSE "B")},
              q \in InoPermutations(n)} :
             n \in 1..MaxOrderNodes}

InitOrder ==
    /\ pc = "walk"
    /\ disk \in OrderDisks
    /\ opts \in [algorithm : {"CRC32"}, depth : {None, Some(0)}, ignored_files : {{}}]
    /\ files = <<>>
    /\ hashes = EmptyMap
    /\ out_file = <<>>
    /\ read_result = NoRead
    /\ IdleCompare /\ IdleParse /\ IdleDetect

NextOrder == CreateHashesWalk \/ CreateHashesOrder \/ CreateHashesHash \/ CreateHashesReturn

SpecOrder == InitOrder /\ [][NextOrder]_vars

(***************************************************************************)
(* Properties of compare_hashes                                            *)
(***************************************************************************)

\* The entries of the two lists of a result that name the path p.
SetDiffEntries(p) ==
    {i \in 1..Len(compare_result.remove_results) : compare_result.remove_results[i].file = p}
ContentDiffEntries(p) ==
    {i \in 1..Len(compare_result.file_compare_results) :
        compare_result.file_compare_results[i].file = p}

\* The paths either list of a result names.
ResultPaths ==
    {compare_result.remove_results[i].file : i \in 1..Len(compare_result.remove_results)}
    \cup {compare_result.file_compare_results[i].file :
            i \in 1..Len(compare_result.file_compare_results)}

\* The tags of the entries of a result.
ResultTags ==
    {compare_result.remove_results[i].tag : i \in 1..Len(compare_result.remove_results)}
    \cup {compare_result.file_compare_results[i].tag :
            i \in 1..Len(compare_result.file_compare_results)}

\* C1. Diff completeness: in the pair compare_hashes returns, every path of current
\* or of loaded is named by exactly one entry, an entry is FileAdded, FileRemoved,
\* FileMatches or FileDiffers, and no entry names a path of neither mapping.
DiffComplete ==
    (pc = "done" /\ compare_result.kind = "ok") =>
        /\ \A p \in DOMAIN current_hashes \cup DOMAIN loaded_hashes :
              Cardinality(SetDiffEntries(p)) + Cardinality(ContentDiffEntries(p)) = 1
        /\ ResultPaths \subseteq DOMAIN current_hashes \cup DOMAIN loaded_hashes
        /\ ResultTags \subseteq {"FileAdded", "FileRemoved", "FileMatches", "FileDiffers"}

\* A returned pair in which all four classifications occur.
DiffCompleteWitness ==
    /\ pc = "done"
    /\ compare_result.kind = "ok"
    /\ ResultTags = {"FileAdded", "FileRemoved", "FileMatches", "FileDiffers"}

\* C2. compare_hashes is total: it ends with a pair or with a CompareError, never
\* with a panic, and with a pair when current has no entry and loaded has some.
CompareHashesTotal ==
    pc = "done" =>
        /\ compare_result.kind \in {"ok", "err"}
        /\ (current_hashes = EmptyMap /\ loaded_hashes # EmptyMap)
              => compare_result.kind = "ok"

\* Every digest of the mapping m is n characters long.
UniformLen(m, n) == \A p \in DOMAIN m : Len(m[p]) = n

\* C3. Length-mismatch detection: when neither mapping is empty, all digests of
\* current have one length and all digests of loaded another, compare_hashes returns
\* HashLengthDiffers with previous_len the length of loaded and current_len the
\* length of current, and no entry of either list.
LengthMismatchDetected ==
    \A lc, ll \in {hexlen(a) : a \in Algorithm} :
        ( /\ pc = "done"
          /\ current_hashes # EmptyMap /\ loaded_hashes # EmptyMap
          /\ lc # ll
          /\ UniformLen(current_hashes, lc) /\ UniformLen(loaded_hashes, ll) )
        => /\ compare_result.kind = "err"
           /\ compare_result.previous_len = ll
           /\ compare_result.current_len = lc
           /\ compare_result.remove_results = <<>>
           /\ compare_result.file_compare_results = <<>>

\* Two mappings of several entries each whose digests differ in length, compared.
LengthMismatchWitness ==
    /\ pc = "done"
    /\ Cardinality(DOMAIN current_hashes) >= 2 /\ Cardinality(DOMAIN loaded_hashes) >= 2
    /\ DOMAIN current_hashes \cap DOMAIN loaded_hashes # {}
    /\ UniformLen(current_hashes, hexlen("CRC32"))
    /\ UniformLen(loaded_hashes, hexlen("XXH64"))
    /\ compare_result.kind = "err"

\* C4. Idempotence: a mapping compared with itself gives a pair with no FileAdded,
\* no FileRemoved, no FileDiffers and one FileMatches for each of its entries.
SelfCompareAllMatch ==
    (pc = "done" /\ current_hashes = loaded_hashes) =>
        /\ compare_result.kind = "ok"
        /\ compare_result.remove_results = <<>>
        /\ Len(compare_result.file_compare_results) = Cardinality(DOMAIN current_hashes)
        /\ \A p \in DOMAIN current_hashes :
              \E i \in ContentDiffEntries(p) :
                  compare_result.file_compare_results[i].tag = "FileMatches"

(***************************************************************************)
(* Properties of the manifest codec                                        *)
(***************************************************************************)

\* A path filepath_parser hands back as it is: no blank at either end, no '*', and
\* no backslash unless there is a forward slash too.
InNormalForm(p) ==
    /\ p # <<>>
    /\ p[1] \notin {" ", "\t"} /\ p[Len(p)] \notin {" ", "\t"}
    /\ \A i \in 1..Len(p) : p[i] # "*"
    /\ (\E i \in 1..Len(p) : p[i] = "\\") => (\E i \in 1..Len(p) : p[i] = "/")

\* C5 as stated. Round-trip: write_hashes of any mapping followed by read_hashes
\* returns a mapping equal to it.
RoundTrip ==
    pc = "done" => (read_result.ok /\ read_result.hashes = hashes)

\* C5, amended. Round-trip of a mapping whose paths are all in the normal form of
\* filepath_parser: write_hashes followed by read_hashes returns an equal mapping.
RoundTripNormalForm ==
    (pc = "done" /\ \A p \in DOMAIN hashes : InNormalForm(p))
        => (read_result.ok /\ read_result.hashes = hashes)

\* A mapping of two paths in normal form, one with a backslash beside a forward
\* slash, a digest and a placeholder, written and read back.
RoundTripWitness ==
    /\ pc = "done"
    /\ Cardinality(DOMAIN hashes) = 2
    /\ \A p \in DOMAIN hashes : InNormalForm(p)
    /\ \E p \in DOMAIN hashes : \E i \in 1..Len(p) : p[i] = "\\"
    /\ \E p, q \in DOMAIN hashes : hashes[p][1] = "-" /\ hashes[q][1] = "A"
    /\ read_result.ok /\ read_result.hashes = hashes

\* The entry a line of the digest d and the path p stands for: p with d in upper
\* case.
UpperOf(d) == [i \in 1..Len(d) |-> IF d[i] = "a" THEN "A" ELSE d[i]]
LineEntry == [p \in {line_in.file} |-> UpperOf(line_in.hash)]

\* Grammar A applies to a line: a run of hexadecimal digits or dashes, blanks, and
\* at least one more character.
GrammarAApplies(l) ==
    \E i, j \in 1..Len(l) :
        /\ i < j /\ j < Len(l)
        /\ \A k \in 1..i : l[k] \in {"0", "1", "a", "b", "c", "d", "f", "A", "B", "C", "D", "F", "-"}
        /\ \A k \in (i + 1)..j : l[k] \in {" ", "\t"}

\* Grammar B applies to a line: at least one character, blanks, and a run of
\* hexadecimal digits or dashes up to the end.
GrammarBApplies(l) ==
    \E i, j \in 1..Len(l) :
        /\ i < j /\ j < Len(l)
        /\ \A k \in (i + 1)..j : l[k] \in {" ", "\t"}
        /\ \A k \in (j + 1)..Len(l) :
              l[k] \in {"0", "1", "a", "b", "c", "d", "f", "A", "B", "C", "D", "F", "-"}

\* C6 as stated. Parser tolerance: the digest-first and the path-first line of a
\* digest d and a path p in normal form both parse to the one entry (p, d in upper
\* case), and Grammar B is used only when Grammar A does not match.
ParserTolerance ==
    pc = "done" =>
        /\ parsed.ok
        /\ parsed.hashes = LineEntry
        /\ parsed.grammar = "B" => ~GrammarAApplies(line)

\* The path begins with a run of hexadecimal digits or dashes that a blank follows
\* or that is all of the path.
BeginsLikeDigest(p) ==
    \E k \in 1..Len(p) :
        /\ \A i \in 1..k : p[i] \in {"a", "-"}
        /\ k = Len(p) \/ p[k + 1] \in {" ", "\t"}

\* C6, amended. The digest-first line parses, by Grammar A, to the one entry (p, d
\* in upper case); so does the path-first line, by Grammar B, unless p begins with a
\* run of hexadecimal digits or dashes followed by a blank or by the end of p, and
\* then Grammar A matches the path-first line. Grammar B is used only when
\* Grammar A does not match.
ParserToleranceUnlessDigestLike ==
    pc = "done" =>
        /\ line_in.form = "digest-first"
              => (parsed.ok /\ parsed.hashes = LineEntry /\ parsed.grammar = "A")
        /\ (line_in.form = "path-first" /\ ~BeginsLikeDigest(line_in.file))
              => (parsed.ok /\ parsed.hashes = LineEntry /\ parsed.grammar = "B")
        /\ (line_in.form = "path-first" /\ BeginsLikeDigest(line_in.file))
              => (parsed.ok /\ parsed.grammar = "A")
        /\ parsed.grammar = "B" => ~GrammarAApplies(line)

\* A path-first line, with a digest in lower case and a path that holds a
\* hexadecimal digit and a blank, parsed by Grammar B to the entry it stands for.
ParserToleranceWitness ==
    /\ pc = "done"
    /\ line_in.form = "path-first"
    /\ \E i \in 1..Len(line_in.hash) : line_in.hash[i] = "a"
    /\ \E i \in 1..Len(line_in.file) : line_in.file[i] = "a"
    /\ \E i \in 1..Len(line_in.file) : line_in.file[i] = " "
    /\ parsed.ok /\ parsed.grammar = "B" /\ parsed.hashes = LineEntry

\* A line of blanks only (or of nothing), and a line of nothing.
IsBlank(l) == \A i \in 1..Len(l) : l[i] \in {" ", "\t"}
IsEmpty(l) == l = <<>>

\* A comment: the first character that is no blank is ';'.
IsComment(l) ==
    \E i \in 1..Len(l) : l[i] = ";" /\ \A k \in 1..(i - 1) : l[k] \in {" ", "\t"}

\* What read_hashes owes for a manifest of which the lines numbered in kept are
\* not passed over: it fails exactly when one of these matches neither grammar, then
\* with the text of the first such line and no mapping; else its mapping holds the
\* entries of these lines and no other.
ReadContract(kept) ==
    LET bad == {i \in kept : ~GrammarAApplies(out_file[i]) /\ ~GrammarBApplies(out_file[i])}
        entry(i) == try_contains(out_file[i], EmptyMap).hashes
    IN  /\ read_result.ok <=> bad = {}
        /\ ~read_result.ok =>
              /\ read_result.hashes = EmptyMap
              /\ \E i \in bad : read_result.error = out_file[i] /\ \A k \in bad : i <= k
        /\ read_result.ok =>
              /\ \A p \in DOMAIN read_result.hashes :
                    \E i \in kept : p \in DOMAIN entry(i) /\ entry(i)[p] = read_result.hashes[p]
              /\ \A i \in kept : DOMAIN entry(i) \subseteq DOMAIN read_result.hashes

\* The lines that are neither blank nor a comment, and those that are neither empty
\* nor a comment.
NotBlankNorComment == {i \in 1..Len(out_file) : ~IsBlank(out_file[i]) /\ ~IsComment(out_file[i])}
NotEmptyNorComment == {i \in 1..Len(out_file) : ~IsEmpty(out_file[i]) /\ ~IsComment(out_file[i])}

TableLengths == {8, 16, 32, 40, 56, 64, 96, 128}
TableAlgorithm(len) ==
    CASE len = 8 -> "CRC32"
      [] len = 16 -> "XXH64"
      [] len = 32 -> "MD5"
      [] len = 40 -> "SHA1"
      [] len = 56 -> "SHA2224"
      [] len = 64 -> "BLAKE3"
      [] len = 96 -> "SHA2384"
      [] len = 128 -> "BLAKE2B"

\* The bucket of a length that is not in the table.
BucketAlgorithm(len) ==
    IF len < 12 THEN "CRC32"
    ELSE IF len < 36 THEN "MD5"
    ELSE IF len < 52 THEN "BLAKE3"
    ELSE IF len < 110 THEN "SHA2384"
    ELSE "BLAKE2B"

\* The string after the normalisation, and its kinds.
Normalized == NormalizeHash(hash)
OnlyDashes == Normalized # <<>> /\ \A i \in 1..Len(Normalized) : Normalized[i] = "-"
OnlyHexDigits ==
    /\ Normalized # <<>>
    /\ \A i \in 1..Len(Normalized) : IsXDigit(Normalized[i])
HasOtherChar ==
    \E i \in 1..Len(Normalized) : ~IsXDigit(Normalized[i]) /\ Normalized[i] # "-"

\* C8 as stated. autodetect_from_hash is the reference function: a string of dashes
\* only or of hexadecimal digits only gives, in both cases alike, the algorithm of
\* the table for its length, or of the bucket of a length that is not in the table;
\* a string with another character gives BLAKE3.
AutodetectIsReference ==
    pc = "done" =>
        /\ (OnlyDashes \/ OnlyHexDigits) =>
              algo = (IF Len(Normalized) \in TableLengths
                      THEN TableAlgorithm(Len(Normalized))
                      ELSE BucketAlgorithm(Len(Normalized)))
        /\ HasOtherChar => algo = "BLAKE3"

\* C8, amended. The buckets are for hexadecimal digits only: a string of dashes
\* whose length is not in the table gives BLAKE3; so does every string that is
\* neither of dashes only nor of hexadecimal digits only (the empty one, one with
\* another character, one that mixes dashes and digits).
AutodetectBucketsForHexOnly ==
    pc = "done" =>
        /\ OnlyHexDigits =>
              algo = (IF Len(Normalized) \in TableLengths
                      THEN TableAlgorithm(Len(Normalized))
                      ELSE BucketAlgorithm(Len(Normalized)))
        /\ OnlyDashes =>
              algo = (IF Len(Normalized) \in TableLengths
                      THEN TableAlgorithm(Len(Normalized))
                      ELSE "BLAKE3")
        /\ (~OnlyHexDigits /\ ~OnlyDashes) => algo = "BLAKE3"

\* A string that, past its 0x and its blanks, is 100 dashes: in the bucket of
\* SHA2384, and detected as BLAKE3.
AutodetectWitness ==
    /\ pc = "done"
    /\ Len(hash) > Len(Normalized)
    /\ OnlyDashes
    /\ Len(Normalized) = 100
    /\ algo = "BLAKE3"

(***************************************************************************)
(* Properties of check mode                                                *)
(***************************************************************************)

\* The manifest was read and holds no digest to detect the algorithm from: each of
\* its entries is a placeholder, or it has no entry.
NoUsableExample ==
    /\ read_result.ok
    /\ \A p \in DOMAIN loaded_hashes :
          \A i \in 1..Len(loaded_hashes[p]) : loaded_hashes[p][i] = "-"

\* C9. In check mode with the algorithm unspecified, a manifest without a usable
\* example digest is handled: once the algorithm is to be chosen the run goes on with
\* some algorithm or ends with an error, and does not panic.
CheckHandlesNoExample ==
    (opts.algorithm = "UNSPECIFIED" /\ NoUsableExample /\ pc \notin {"check_read", "check_algo"})
        => pc # "panic"

(***************************************************************************)
(* Properties of create_hashes                                             *)
(***************************************************************************)

\* The entry i of the tree and the directories it lies in.
RECURSIVE SelfAndAbove(_)
SelfAndAbove(i) == IF i = 0 THEN {} ELSE {i} \cup SelfAndAbove(disk.parent[i])

\* The path of entry i from the root: the names of the directories it lies in, from
\* the outermost on, and its own, with a separator between them.
RECURSIVE PathFromRoot(_)
PathFromRoot(i) ==
    IF disk.parent[i] = 0 THEN <<NodeNames[i]>>
    ELSE PathFromRoot(disk.parent[i]) \o <<"/">> \o <<NodeNames[i]>>

\* The entry lies within the depth limit: at most depth directories lie between
\* the root and it.
WithinDepthLimit(i) ==
    opts.depth = <<>> \/ Cardinality(SelfAndAbove(i)) - 1 <= opts.depth[1]

\* The regular files create_hashes is to hash: within the depth limit, not ignored,
\* and in no ignored directory.
FilesToHash ==
    {i \in 1..disk.n :
        /\ disk.kind[i] = "file"
        /\ WithinDepthLimit(i)
        /\ \A j \in SelfAndAbove(i) : PathFromRoot(j) \notin opts.ignored_files}

\* C10. The keys of the mapping create_hashes returns are the relative paths of the
\* regular files within the depth limit that are not ignored and lie in no ignored
\* directory.
ScanKeysExact ==
    pc = "done" => DOMAIN hashes = {PathFromRoot(i) : i \in FilesToHash}

\* A scan, with a depth limit, of a tree with an ignored directory that holds a
\* file, and with a file that is hashed.
ScanKeysWitness ==
    /\ pc = "done"
    /\ opts.depth # <<>>
    /\ \E i, j \in 1..disk.n :
          /\ disk.kind[i] = "dir" /\ PathFromRoot(i) \in opts.ignored_files
          /\ disk.kind[j] = "file" /\ disk.parent[j] = i
    /\ hashes # EmptyMap

(***************************************************************************)
(* Properties of the two lists compare_hashes returns                      *)
(***************************************************************************)

\* The paths of current only and of loaded only.
CurrentOnly == DOMAIN current_hashes \ DOMAIN loaded_hashes
LoadedOnly == DOMAIN loaded_hashes \ DOMAIN current_hashes

\* The entries from..to of the set-difference list carry the tag and name the paths
\* of S, each once, in ascending path order.
ListsAscending(from, to, tag, S) ==
    LET rr == compare_result.remove_results
    IN  /\ to - from + 1 = Cardinality(S)
        /\ \A i \in from..to : rr[i].tag = tag /\ rr[i].file \in S
        /\ \A i \in from..to : \A j \in from..to :
              i < j => PathLess(rr[i].file, rr[j].file)

\* C11. Set reconciliation: in the pair compare_hashes returns, the set-difference
\* list is FileAdded(p) for every path p of current only, in ascending path order,
\* followed by FileRemoved(p) for every path p of loaded only, in ascending path
\* order; no FileAdded follows a FileRemoved.
SetReconciliation ==
    (pc = "done" /\ compare_result.kind = "ok") =>
        LET rr == compare_result.remove_results
            k == Cardinality(CurrentOnly)
        IN  /\ Len(rr) = k + Cardinality(LoadedOnly)
            /\ ListsAscending(1, k, "FileAdded", CurrentOnly)
            /\ ListsAscending(k + 1, Len(rr), "FileRemoved", LoadedOnly)
            /\ \A i \in 1..Len(rr) : \A j \in 1..Len(rr) :
                  (rr[i].tag = "FileRemoved" /\ i < j) => rr[j].tag # "FileAdded"

\* A returned pair with two paths of current only, one under the other's name as a
\* directory and one that sorts after it only as a path, a path of loaded only and
\* a path of both.
SetReconciliationWitness ==
    /\ pc = "done"
    /\ compare_result.kind = "ok"
    /\ {<<"a", "/", "b">>, <<"a", "-">>} \subseteq CurrentOnly
    /\ LoadedOnly # {}
    /\ compare_result.file_compare_results # <<>>
    /\ compare_result.remove_results[1] = [tag |-> "FileAdded", file |-> <<"a", "/", "b">>]

\* C12. Content comparison: in the pair compare_hashes returns, the content list
\* names the paths of both mappings, each once; a path with equal digests by
\* FileMatches, a path with unequal digests by FileDiffers with was_hash the digest
\* of loaded and new_hash the digest of current.
ContentComparison ==
    (pc = "done" /\ compare_result.kind = "ok") =>
        LET fr == compare_result.file_compare_results
            both == DOMAIN current_hashes \cap DOMAIN loaded_hashes
        IN  /\ Len(fr) = Cardinality(both)
            /\ \A p \in both :
                  \E i \in 1..Len(fr) :
                      /\ fr[i].file = p
                      /\ (fr[i].tag = "FileMatches") <=> (current_hashes[p] = loaded_hashes[p])
                      /\ current_hashes[p] # loaded_hashes[p] =>
                            fr[i] = [tag |-> "FileDiffers", file |-> p,
                                     was_hash |-> loaded_hashes[p],
                                     new_hash |-> current_hashes[p]]

\* A returned pair with a path of equal digests and a path of unequal digests.
ContentComparisonWitness ==
    /\ pc = "done"
    /\ compare_result.kind = "ok"
    /\ \E i, j \in 1..Len(compare_result.file_compare_results) :
          /\ compare_result.file_compare_results[i].tag = "FileMatches"
          /\ compare_result.file_compare_results[j].tag = "FileDiffers"
          /\ compare_result.file_compare_results[j].was_hash
                # compare_result.file_compare_results[j].new_hash

(***************************************************************************)
(* Properties of the order of hashing                                      *)
(***************************************************************************)

\* The mapping of the scanned files, which no inode enters: the path of each file
\* to hash with the digest of its content.
ScannedMapping ==
    [p \in {PathFromRoot(i) : i \in FilesToHash} |->
        LET i == CHOOSE j \in FilesToHash : PathFromRoot(j) = p
        IN  <<disk.content[i]>> \o [k \in 1..7 |-> "0"]]

\* The files still to hash, as paths.
PathsToHash == {PathFromRoot(files[k]) : k \in 1..Len(files)}

====
